---- MODULE Spec2Model ----
(***************************************************************************)
(* A model of the LaTeX word-count tracker:                                *)
(*   scripts/tex_word_counter.py       the counter and the aggregation run *)
(*   scripts/generate_progress_chart.py  the SVG chart renderer            *)
(*                                                                         *)
(* Three specifications share the module:                                  *)
(*   Spec       repeated runs of tex_word_counter.main against the         *)
(*              persisted history file, day after day;                     *)
(*   SpecCount  count_words_in_tex_content applied stage by stage to       *)
(*              bounded input texts;                                       *)
(*   SpecChart  generate_progress_svg applied to bounded daily series.     *)
(***************************************************************************)
EXTENDS Integers, Sequences, FiniteSets, TLC

VARIABLES
    \* ---- environment of the aggregation runs
    scope,        \* how far this behaviour is followed: days and irregular events
    now,          \* the real day number (1 = the day of the first run)
    skew,         \* TRUE while the machine clock wrongly reads the epoch
    odd,          \* irregular events so far (failures, skipped day, clock reset)
    ranToday,     \* a run returned 0 on the present day
    file,         \* data/word_count_history.json as it is on disk
    \* ---- one run of tex_word_counter.main
    pc,           \* position of the running process ("idle": no process)
    token,        \* the credential the run found in its environment
    repos,        \* what get_all_repos returned
    total_words,  \* main's accumulator
    history,      \* history["daily_counts"] in memory
    today,        \* main's today string
    status,       \* how the last process ended
    \* (the next three are followed until the loop over repos has ended)
    contrib,      \* what clone_and_count_tex_words returned, per repository
    outcomes,     \* what happened to each repository
    reported,     \* the warnings printed
    before,       \* daily_counts as load_history returned it
    \* ---- count_words_in_tex_content
    parts,        \* the input text as prefix, block, suffix
    content,      \* the local variable content
    stage,        \* the next stage of the pipeline
    nwords,       \* the value returned
    \* ---- generate_progress_svg
    daily_counts, \* the series handed to the renderer
    cpc,          \* position in the renderer
    changes,      \* the list changes
    scale,        \* max_change, latest_total, today_change, bar_width
    bars_svg,     \* the list bars_svg
    svg           \* the document returned

aggVars == <<scope, now, skew, odd, ranToday, file, pc, token, repos, total_words,
             history, today, status, contrib, outcomes, reported, before>>
countVars == <<parts, content, stage, nwords>>
chartVars == <<daily_counts, cpc, changes, scale, bars_svg, svg>>
vars == <<aggVars, countVars, chartVars>>

----------------------------------------------------------------------------
(* Bounds of the model.                                                    *)

(* Behaviours are followed in two scopes: over MaxDate days with at most  *)
(* LongOdd irregular events (a day without a completed run, a clock that  *)
(* reads the epoch), and over ShortDays days with at most ShortOdd of     *)
(* them, where a repository or a file that fails is an irregular event    *)
(* too.  Failures that leave the file alone (no credential, a failed      *)
(* request, a stopped process) are not counted.                           *)

MaxDate == 32
LongOdd == 1
ShortDays == 3
ShortOdd == 2
NumRepos == 2
FilesPerRepo == 2

Scopes == {[days |-> MaxDate, odd |-> LongOdd, faults |-> FALSE],
           [days |-> ShortDays, odd |-> ShortOdd, faults |-> TRUE]}

(* Program constants.                                                      *)

\* tex_word_counter.py:183, the slice [-30:]
KeepDays == 30

----------------------------------------------------------------------------
(* Sequences.                                                              *)

RECURSIVE SumSeq(_)
SumSeq(s) == IF s = <<>> THEN 0 ELSE Head(s) + SumSeq(Tail(s))

Range(s) == {s[i] : i \in 1..Len(s)}

----------------------------------------------------------------------------
(* Dates.  strftime("%Y-%m-%d") gives a zero-padded string, which Python   *)
(* compares character by character; with fixed field widths that is the   *)
(* lexicographic order of <<year, month, day>>.  Day 1 is 2023-12-01, so   *)
(* that the bounded run crosses a month and a year boundary.               *)

StrfDate(n) == IF n <= 31 THEN <<2023, 12, n>> ELSE <<2024, 1, n - 31>>

Epoch == <<1970, 1, 1>>

DateLess(a, b) ==
    \/ a[1] < b[1]
    \/ a[1] = b[1] /\ a[2] < b[2]
    \/ a[1] = b[1] /\ a[2] = b[2] /\ a[3] < b[3]

\* datetime.now(timezone.utc).strftime("%Y-%m-%d")
UtcToday == IF skew THEN Epoch ELSE StrfDate(now)

----------------------------------------------------------------------------
(* count_words_in_tex_content.                                             *)
(*                                                                         *)
(* A text is a sequence of symbols.  A symbol is one character ("bs" \,    *)
(* "lb" {, "rb" }, "ls" [, "rs" ], "star" *, "dollar" $, "pct" %, "op" a   *)
(* character such as = or +, "sp" a blank, "nl" a line break) or a run of  *)
(* letters spelling the word of its name ("w" is any other word, say x).   *)
(* Two adjacent letter symbols are one longer run of letters, which is how *)
(* the patterns below treat them.                                          *)

EmphNames == {"textbf", "textit", "emph", "underline"}
EnvNames == {"equation", "align", "math", "displaymath"}
Letters == EmphNames \cup EnvNames \cup {"begin", "end", "w"}
Whitespace == {"sp", "nl"}

\* the least j >= i with s[j] \in set, or 0
RECURSIVE FirstAt(_, _, _)
FirstAt(s, i, set) ==
    IF i > Len(s) THEN 0
    ELSE IF s[i] \in set THEN i
    ELSE FirstAt(s, i + 1, set)

\* the last index of the run of symbols of set that starts at i
RECURSIVE RunEnd(_, _, _)
RunEnd(s, i, set) ==
    IF i + 1 <= Len(s) /\ s[i + 1] \in set THEN RunEnd(s, i + 1, set) ELSE i

\* whether t occurs in s at index i
At(s, i, t) ==
    /\ i + Len(t) - 1 <= Len(s)
    /\ \A k \in 1..Len(t) : s[i + k - 1] = t[k]

\* line 47: re.sub(r"%.*$", "", content, flags=re.MULTILINE)
RECURSIVE StripComments(_, _)
StripComments(s, i) ==
    IF i > Len(s) THEN <<>>
    ELSE IF s[i] = "pct"
    THEN LET j == FirstAt(s, i + 1, {"nl"})
         IN  IF j = 0 THEN <<>> ELSE StripComments(s, j)
    ELSE <<s[i]>> \o StripComments(s, i + 1)

\* line 51: re.sub(r"\\(textbf|textit|emph|underline)\{([^}]*)\}", r"\2", content)
RECURSIVE UnwrapEmphasis(_, _)
UnwrapEmphasis(s, i) ==
    IF i > Len(s) THEN <<>>
    ELSE LET j == IF /\ i + 2 <= Len(s)
                     /\ s[i] = "bs"
                     /\ s[i + 1] \in EmphNames
                     /\ s[i + 2] = "lb"
                  THEN FirstAt(s, i + 3, {"rb"})
                  ELSE 0
         IN  IF j > 0
             THEN SubSeq(s, i + 3, j - 1) \o UnwrapEmphasis(s, j + 1)
             ELSE <<s[i]>> \o UnwrapEmphasis(s, i + 1)

\* the index after an optional group open ... close that starts at p
AfterGroup(s, p, open, close) ==
    IF p <= Len(s) /\ s[p] = open /\ FirstAt(s, p + 1, {close}) > 0
    THEN FirstAt(s, p + 1, {close}) + 1
    ELSE p

\* line 54: re.sub(r"\\[a-zA-Z]+\*?(\[[^\]]*\])?(\{[^}]*\})?", " ", content)
RECURSIVE StripCommands(_, _)
StripCommands(s, i) ==
    IF i > Len(s) THEN <<>>
    ELSE IF i + 1 <= Len(s) /\ s[i] = "bs" /\ s[i + 1] \in Letters
    THEN LET k == RunEnd(s, i + 1, Letters) + 1
             p == IF k <= Len(s) /\ s[k] = "star" THEN k + 1 ELSE k
             q == AfterGroup(s, p, "ls", "rs")
             r == AfterGroup(s, q, "lb", "rb")
         IN  <<"sp">> \o StripCommands(s, r)
    ELSE <<s[i]>> \o StripCommands(s, i + 1)

\* line 57: re.sub(r"\$[^$]+\$", " ", content)
RECURSIVE StripInlineMath(_, _)
StripInlineMath(s, i) ==
    IF i > Len(s) THEN <<>>
    ELSE LET j == IF /\ s[i] = "dollar"
                     /\ i + 1 <= Len(s)
                     /\ s[i + 1] # "dollar"
                  THEN FirstAt(s, i + 2, {"dollar"})
                  ELSE 0
         IN  IF j > 0
             THEN <<"sp">> \o StripInlineMath(s, j + 1)
             ELSE <<s[i]>> \o StripInlineMath(s, i + 1)

\* the least j >= i where t occurs in s, or 0
RECURSIVE FindAt(_, _, _)
FindAt(s, i, t) ==
    IF i + Len(t) - 1 > Len(s) THEN 0
    ELSE IF At(s, i, t) THEN i
    ELSE FindAt(s, i + 1, t)

\* line 58: re.sub(r"\\\[.*?\\\]", " ", content, flags=re.DOTALL)
RECURSIVE StripDisplayMath(_, _)
StripDisplayMath(s, i) ==
    IF i > Len(s) THEN <<>>
    ELSE LET j == IF At(s, i, <<"bs", "ls">>)
                  THEN FindAt(s, i + 2, <<"bs", "rs">>)
                  ELSE 0
         IN  IF j > 0
             THEN <<"sp">> \o StripDisplayMath(s, j + 2)
             ELSE <<s[i]>> \o StripDisplayMath(s, i + 1)

\* the index after \begin{e} or \begin{e*} (word = "begin") at i, or 0
MarkerEnd(s, i, word, e) ==
    IF At(s, i, <<"bs", word, "lb", e, "star", "rb">>) THEN i + 6
    ELSE IF At(s, i, <<"bs", word, "lb", e, "rb">>) THEN i + 5
    ELSE 0

\* the index after the first \end{e} or \end{e*} that starts at j >= i, or 0
RECURSIVE FindEnd(_, _, _)
FindEnd(s, i, e) ==
    IF i > Len(s) THEN 0
    ELSE IF MarkerEnd(s, i, "end", e) > 0 THEN MarkerEnd(s, i, "end", e)
    ELSE FindEnd(s, i + 1, e)

\* line 59: re.sub(r"\\begin\{(equation|align|math|displaymath)\*?\}.*?
\*          \\end\{\1\*?\}", " ", content, flags=re.DOTALL)
RECURSIVE StripMathEnvironments(_, _)
StripMathEnvironments(s, i) ==
    IF i > Len(s) THEN <<>>
    ELSE LET e == IF i + 3 <= Len(s) THEN s[i + 3] ELSE "none"
             p == IF e \in EnvNames THEN MarkerEnd(s, i, "begin", e) ELSE 0
             q == IF p > 0 THEN FindEnd(s, p, e) ELSE 0
         IN  IF q > 0
             THEN <<"sp">> \o StripMathEnvironments(s, q)
             ELSE <<s[i]>> \o StripMathEnvironments(s, i + 1)

\* line 62: re.sub(r"[{}]", " ", content)
StripBraces(s) ==
    [i \in 1..Len(s) |-> IF s[i] \in {"lb", "rb"} THEN "sp" ELSE s[i]]

\* lines 65-67: len([w for w in content.split() if w])
SplitCount(s) ==
    Cardinality({i \in 1..Len(s) :
        /\ s[i] \notin Whitespace
        /\ (i = 1 \/ s[i - 1] \in Whitespace)})

\* lines 44-67
count_words_in_tex_content(text) ==
    LET c1 == StripComments(text, 1)
        c2 == UnwrapEmphasis(c1, 1)
        c3 == StripCommands(c2, 1)
        c4 == StripInlineMath(c3, 1)
        c5 == StripDisplayMath(c4, 1)
        c6 == StripMathEnvironments(c5, 1)
        c7 == StripBraces(c6)
    IN  SplitCount(c7)

----------------------------------------------------------------------------
(* tex_word_counter.py: the repositories of one run.                       *)

\* what the listing yields: NumRepos repositories, each holding
\* FilesPerRepo .tex files
RepoList == [i \in 1..NumRepos |-> i]
TexFiles == 1..FilesPerRepo

\* the text of a .tex file: "x %x" and a line break
FileText(r, f) == <<"w", "sp", "pct", "w", "nl">>

\* How the body of clone_and_count_tex_words can go: git clone returns
\* non-zero (line 97), subprocess.run times out (line 114), another
\* exception reaches the outer handler before any file is counted
\* (line 116), or the clone succeeds and the files are read.
CloneOutcomes == {"ok", "clone_failed", "timeout", "error"}

\* a faulty variant: one unreadable file voids the whole repository
AllOrNothing(r, out, bad) ==
    IF out = "ok" /\ bad = {}
    THEN SumSeq([f \in TexFiles |-> count_words_in_tex_content(FileText(r, f))])
    ELSE 0

\* lines 70-119: the value clone_and_count_tex_words returns; bad is the
\* set of files whose read_text raises (lines 105-110)
clone_and_count_tex_words(r, out, bad) ==
    IF out = "ok"
    THEN SumSeq([f \in TexFiles |->
                    IF f \in bad THEN 0
                    ELSE count_words_in_tex_content(FileText(r, f))])
    ELSE 0

\* lines 98, 110, 115, 117: the warnings it prints
Warnings(r, out, bad) ==
    IF out = "ok"
    THEN {<<r, "Could not read", f>> : f \in bad}
    ELSE {<<r, out>>}

----------------------------------------------------------------------------
(* tex_word_counter.py: the history.                                       *)

Record(d, w) == [date |-> d, words |-> w]

Dates(counts) == [i \in 1..Len(counts) |-> counts[i].date]

\* a faulty variant: today's entry is appended without looking for one
AlwaysAppend(counts, t, total) == Append(counts, Record(t, total))

\* lines 172-180: overwrite the first entry of today's date, or append one
UpsertToday(counts, t, total) ==
    LET hits == {i \in 1..Len(counts) : counts[i].date = t}
    IN  IF hits # {}
        THEN LET k == CHOOSE i \in hits : \A j \in hits : i <= j
             IN  [counts EXCEPT ![k].words = total]
        ELSE Append(counts, Record(t, total))

\* r put behind the entries of the sorted s that are not later than it
InsertByDate(s, r) ==
    LET k == Cardinality({i \in 1..Len(s) : ~DateLess(r.date, s[i].date)})
    IN  SubSeq(s, 1, k) \o <<r>> \o SubSeq(s, k + 1, Len(s))

\* a faulty variant: the list is left in the order of insertion
NoSort(s) == s

\* line 183: sorted(..., key=lambda x: x["date"]), a stable sort
RECURSIVE SortedByDate(_)
SortedByDate(s) ==
    IF s = <<>> THEN <<>>
    ELSE InsertByDate(SortedByDate(SubSeq(s, 1, Len(s) - 1)), s[Len(s)])

\* a faulty variant: the slice [:30], which keeps the oldest entries
KeepFirst(s) == IF Len(s) > KeepDays THEN SubSeq(s, 1, KeepDays) ELSE s

\* line 183: [-30:]
KeepLast(s) ==
    IF Len(s) > KeepDays THEN SubSeq(s, Len(s) - KeepDays + 1, Len(s)) ELSE s

\* lines 171-183
UpdateHistory(counts, t, total) ==
    KeepLast(SortedByDate(UpsertToday(counts, t, total)))

\* The file on disk: absent, zero bytes long, or a whole JSON document.
Missing == [state |-> "missing", items |-> <<>>]
Truncated == [state |-> "empty", items |-> <<>>]
Document(counts) == [state |-> "doc", items |-> counts]

\* a variant that writes beside the file and replaces it at the close
KeepUntilClose(f) == f

\* line 132: open(history_file, "w") creates or truncates the file
OpenForWriting(f) == Truncated

\* lines 132-133: the text json.dump wrote stays in the buffer of the file
\* object (a history of 30 entries is far shorter than the buffer) and
\* reaches the disk when the with block closes the file
CloseAfterDump(f, counts) == Document(counts)

\* How a process ends: main returns a value that exit() passes on
\* (line 192), an exception leaves main (the interpreter exits with 1), or
\* the process is stopped from outside.
NoProcess == [how |-> "none", code |-> -1, at |-> "none"]
Running == [how |-> "running", code |-> -1, at |-> "none"]
Returned(c, where) == [how |-> "returned", code |-> c, at |-> where]
Raised(where) == [how |-> "raised", code |-> 1, at |-> where]
Killed == [how |-> "killed", code |-> 137, at |-> "none"]

\* a faulty variant: the missing credential goes unnoticed by the caller
NoTokenReturnsZero == [how |-> "returned", code |-> 0, at |-> "token"]

\* line 140
NoTokenStatus == Returned(1, "token")
\* line 188
EndStatus == Returned(0, "end")

----------------------------------------------------------------------------
(* Spec: the aggregation runs.                                             *)

CountIdle ==
    /\ parts = <<>>
    /\ content = <<>>
    /\ stage = 0
    /\ nwords = -1

ChartIdle ==
    /\ daily_counts = <<>>
    /\ cpc = "off"
    /\ changes = <<>>
    /\ scale = <<>>
    /\ bars_svg = <<>>
    /\ svg = <<>>

\* the locals of main before its first statement, and after the process
\* has ended without returning 0
FreshRun ==
    /\ repos' = <<>>
    /\ total_words' = 0
    /\ history' = <<>>
    /\ today' = <<>>
    /\ contrib' = <<>>
    /\ outcomes' = <<>>
    /\ reported' = {}
    /\ before' = <<>>

\* what is known of the last process is followed until the day ends or the
\* clock changes
Forgotten ==
    /\ token' = FALSE
    /\ status' = NoProcess
    /\ FreshRun

AggInit ==
    /\ scope \in Scopes
    /\ now = 1
    /\ skew = FALSE
    /\ odd = 0
    /\ ranToday = FALSE
    /\ file = Missing
    /\ pc = "idle"
    /\ token = FALSE
    /\ repos = <<>>
    /\ total_words = 0
    /\ history = <<>>
    /\ today = <<>>
    /\ status = NoProcess
    /\ contrib = <<>>
    /\ outcomes = <<>>
    /\ reported = {}
    /\ before = <<>>

Init == AggInit /\ CountIdle /\ ChartIdle

envVars == <<scope, now, skew, odd, ranToday>>
runVars == <<repos, total_words, history, today, contrib, outcomes, reported,
             before>>

\* lines 137-138: a process starts and finds a credential
Start ==
    /\ pc = "idle"
    /\ token' = TRUE
    /\ pc' = "user"
    /\ status' = Running
    /\ FreshRun
    /\ UNCHANGED <<envVars, file, countVars, chartVars>>

\* lines 137-140: a process starts without GH_TOKEN or GITHUB_TOKEN
StartNoToken ==
    /\ pc = "idle"
    /\ token' = FALSE
    /\ pc' = "idle"
    /\ status' = NoTokenStatus
    /\ FreshRun
    /\ UNCHANGED <<envVars, file, countVars, chartVars>>

\* lines 147-149
GetUser ==
    /\ pc = "user"
    /\ pc' = "list"
    /\ UNCHANGED <<envVars, file, token, status, runVars, countVars, chartVars>>

\* line 148: raise_for_status raises, nothing catches it
GetUserFail ==
    /\ pc = "user"
    /\ pc' = "idle"
    /\ status' = Raised("user")
    /\ FreshRun
    /\ UNCHANGED <<envVars, file, token, countVars, chartVars>>

\* lines 152, 18-41
ListRepos ==
    /\ pc = "list"
    /\ repos' = RepoList
    /\ pc' = "repos"
    /\ UNCHANGED <<envVars, file, token, status, total_words, history, today,
                   contrib, outcomes, reported, before, countVars, chartVars>>

\* lines 31-32: a page request fails and raise_for_status raises through
\* get_all_repos and main
ListReposFail ==
    /\ pc = "list"
    /\ pc' = "idle"
    /\ status' = Raised("list")
    /\ FreshRun
    /\ UNCHANGED <<envVars, file, token, countVars, chartVars>>

\* lines 156-158: one iteration of the loop over repos.  Anything but a
\* clean clone with every file readable counts as an irregular event.
ProcessRepo ==
    /\ pc = "repos"
    /\ Len(contrib) < Len(repos)
    /\ \E out \in CloneOutcomes, bad \in SUBSET TexFiles :
        LET r == repos[Len(contrib) + 1]
            words == clone_and_count_tex_words(r, out, bad)
            regular == out = "ok" /\ bad = {}
        IN  /\ out # "ok" => bad = {}
            /\ ~regular => scope.faults /\ odd < scope.odd
            /\ odd' = IF regular THEN odd ELSE odd + 1
            /\ total_words' = total_words + words
            /\ contrib' = Append(contrib, words)
            /\ outcomes' = Append(outcomes, [out |-> out, bad |-> bad])
            /\ reported' = reported \cup Warnings(r, out, bad)
    /\ pc' = IF Len(contrib) + 1 = Len(repos) THEN "load" ELSE "repos"
    /\ UNCHANGED <<scope, now, skew, ranToday, file, token, status, repos,
                   history, today, before, countVars, chartVars>>

\* lines 167, 122-127
LoadHistory ==
    /\ pc = "load"
    /\ file.state # "empty"
    /\ history' = file.items
    /\ before' = file.items
    /\ pc' = "update"
    /\ contrib' = <<>>
    /\ outcomes' = <<>>
    /\ reported' = {}
    /\ UNCHANGED <<envVars, file, token, status, repos, total_words, today,
                   countVars, chartVars>>

\* line 126: json.load raises on a file that holds no document
LoadHistoryFail ==
    /\ pc = "load"
    /\ file.state = "empty"
    /\ pc' = "idle"
    /\ status' = Raised("load")
    /\ FreshRun
    /\ UNCHANGED <<envVars, file, token, countVars, chartVars>>

\* lines 169-183
UpdateToday ==
    /\ pc = "update"
    /\ today' = UtcToday
    /\ history' = UpdateHistory(history, UtcToday, total_words)
    /\ pc' = "save"
    /\ UNCHANGED <<envVars, file, token, status, repos, total_words, contrib,
                   outcomes, reported, before, countVars, chartVars>>

\* lines 185, 132: save_history opens the file
SaveOpen ==
    /\ pc = "save"
    /\ file' = OpenForWriting(file)
    /\ pc' = "dump"
    /\ UNCHANGED <<envVars, token, status, runVars, countVars, chartVars>>

\* lines 133, 186-188: the dump, the close, and main returns 0
SaveClose ==
    /\ pc = "dump"
    /\ file' = CloseAfterDump(file, history)
    /\ pc' = "idle"
    /\ status' = EndStatus
    /\ ranToday' = TRUE
    /\ UNCHANGED <<scope, now, skew, odd, token, runVars, countVars,
                   chartVars>>

\* the process is stopped from outside, wherever it is
Kill ==
    /\ pc # "idle"
    /\ pc' = "idle"
    /\ status' = Killed
    /\ FreshRun
    /\ UNCHANGED <<envVars, file, token, countVars, chartVars>>

\* the next day, after a day with a completed run
Tick ==
    /\ pc = "idle"
    /\ ranToday
    /\ now < scope.days
    /\ now' = now + 1
    /\ skew' = FALSE
    /\ ranToday' = FALSE
    /\ Forgotten
    /\ UNCHANGED <<scope, odd, file, pc, countVars, chartVars>>

\* the next day, after a day without a completed run
SkipDay ==
    /\ pc = "idle"
    /\ ~ranToday
    /\ now < scope.days
    /\ odd < scope.odd
    /\ odd' = odd + 1
    /\ now' = now + 1
    /\ skew' = FALSE
    /\ Forgotten
    /\ UNCHANGED <<scope, ranToday, file, pc, countVars, chartVars>>

\* the machine clock falls back to the epoch until the next day
ClockReset ==
    /\ pc = "idle"
    /\ ~skew
    /\ odd < scope.odd
    /\ odd' = odd + 1
    /\ skew' = TRUE
    /\ Forgotten
    /\ UNCHANGED <<scope, now, ranToday, file, pc, countVars, chartVars>>

Next ==
    \/ Start
    \/ StartNoToken
    \/ GetUser
    \/ GetUserFail
    \/ ListRepos
    \/ ListReposFail
    \/ ProcessRepo
    \/ LoadHistory
    \/ LoadHistoryFail
    \/ UpdateToday
    \/ SaveOpen
    \/ SaveClose
    \/ Kill
    \/ Tick
    \/ SkipDay
    \/ ClockReset

Spec == Init /\ [][Next]_vars

----------------------------------------------------------------------------
(* generate_progress_chart.py.                                             *)
(*                                                                         *)
(* Python computes the geometry in floating point; the model computes it  *)
(* in exact fractions <<numerator, denominator>>, in lowest terms with a   *)
(* positive denominator, and leaves out the rounding of the floats and of  *)
(* the one-decimal formatting of line 88.                                  *)

Abs(n) == IF n < 0 THEN -n ELSE n

RECURSIVE Gcd(_, _)
Gcd(a, b) == IF b = 0 THEN a ELSE Gcd(b, a % b)

Frac(n, d) ==
    LET g == Gcd(Abs(n), Abs(d))
        sgn == IF d < 0 THEN -1 ELSE 1
    IN  <<sgn * (n \div g), sgn * (d \div g)>>

Whole(n) == <<n, 1>>
FracAdd(a, b) == Frac(a[1] * b[2] + b[1] * a[2], a[2] * b[2])
FracSub(a, b) == Frac(a[1] * b[2] - b[1] * a[2], a[2] * b[2])
FracMul(a, b) == Frac(a[1] * b[1], a[2] * b[2])
FracLeq(a, b) == a[1] * b[2] <= b[1] * a[2]
FracMin(a, b) == IF FracLeq(a, b) THEN a ELSE b
FracMax(a, b) == IF FracLeq(a, b) THEN b ELSE a

\* lines 41-45
width == 500
height == 200
padding == 40
chart_width == width - 2 * padding
chart_height == height - 2 * padding - 30
\* line 68
bar_gap == 2

Green == "#2ea44f"
Red == "#cf222e"
Grey == "#57606a"

\* a faulty variant: every change is taken against the first entry
ChangesFromFirst(counts) ==
    [i \in 1..Len(counts) |->
        [date |-> counts[i].date,
         change |-> counts[i].words - counts[1].words,
         total |-> counts[i].words]]

\* lines 48-55
ChangesOf(counts) ==
    [i \in 1..Len(counts) |->
        [date |-> counts[i].date,
         change |-> IF i = 1 THEN 0
                    ELSE counts[i].words - counts[i - 1].words,
         total |-> counts[i].words]]

\* lines 58-60
MaxChange(ch) ==
    LET m == CHOOSE a \in {Abs(ch[i].change) : i \in 1..Len(ch)} :
                 \A i \in 1..Len(ch) : Abs(ch[i].change) <= a
    IN  IF m = 0 THEN 1 ELSE m

\* line 67: min(20, (chart_width - 10) / max(num_bars, 1))
BarWidth(num_bars) ==
    FracMin(Whole(20),
            Frac(chart_width - 10, IF num_bars > 1 THEN num_bars ELSE 1))

\* lines 78 and 83: (abs(change) / max_change) * (chart_height / 2 - 10)
BarHeight(change, max_change) ==
    FracMul(Frac(Abs(change), max_change),
            FracSub(Frac(chart_height, 2), Whole(10)))

\* lines 84 and 93: padding + 30 + chart_height / 2
ZeroY == FracAdd(Whole(padding + 30), Frac(chart_height, 2))

\* "{change:+d}": a sign, then the digits
SignedText(n) == <<IF n < 0 THEN "-" ELSE "+", Abs(n)>>

\* "{today_change}": a minus sign if negative, then the digits
PlainText(n) == IF n < 0 THEN <<"-", -n>> ELSE <<n>>

\* "{latest_total:,}": the digits in groups of three, separated by commas
RECURSIVE Grouped(_)
Grouped(n) ==
    IF n < 1000 THEN <<n>> ELSE Append(Grouped(n \div 1000), n % 1000)

\* lines 72-90: the rect element drawn for changes[i + 1], i counted from 0
Bar(i, entry, bar_width, max_change) ==
    LET x == FracAdd(Whole(padding),
                     FracMul(Whole(i), FracAdd(bar_width, Whole(bar_gap))))
        bar_height == BarHeight(entry.change, max_change)
        y == IF entry.change >= 0 THEN FracSub(ZeroY, bar_height) ELSE ZeroY
    IN  [x |-> x,
         y |-> y,
         width |-> bar_width,
         height |-> FracMax(bar_height, Whole(1)),
         fill |-> IF entry.change >= 0 THEN Green ELSE Red,
         title |-> [date |-> entry.date,
                    change |-> SignedText(entry.change),
                    total |-> entry.total]]

\* lines 98-106
ChangeText(today_change) ==
    IF today_change > 0
    THEN [text |-> <<"+">> \o PlainText(today_change) \o <<" words today!">>,
          color |-> Green]
    ELSE IF today_change < 0
    THEN [text |-> PlainText(today_change) \o <<" words today">>,
          color |-> Red]
    ELSE [text |-> <<"No change today">>, color |-> Grey]

\* lines 25-35
generate_empty_svg ==
    [kind |-> "empty",
     title |-> "LaTeX Writing Progress",
     subtitle |-> "No data yet. Start writing!",
     bars |-> <<>>]

\* lines 108-132
ChartSvg(counts, sc, bars) ==
    [kind |-> "chart",
     title |-> "LaTeX Writing Progress",
     total |-> Grouped(sc.latest_total) \o <<" words">>,
     change |-> ChangeText(sc.today_change),
     zero_line |-> [x1 |-> padding, y1 |-> ZeroY,
                    x2 |-> width - padding, y2 |-> ZeroY],
     bars |-> bars,
     days |-> Len(counts)]

----------------------------------------------------------------------------
(* SpecChart: the renderer applied to a series.                            *)

\* The series are those the history file can hold: at most KeepDays
\* entries of consecutive dates, the first MaxFree of them with any of the
\* word counts below and the later ones repeating the last of these.
MaxFree == 3
WordValues == {0, 100, 101, 150, 1500}

RECURSIVE SeqsUpTo(_, _)
SeqsUpTo(S, n) ==
    IF n = 0 THEN {<<>>}
    ELSE LET shorter == SeqsUpTo(S, n - 1)
         IN  shorter \cup {Append(q, v) : q \in shorter, v \in S}

Series(free, flat) ==
    [i \in 1..(Len(free) + flat) |->
        Record(StrfDate(i),
               IF i <= Len(free) THEN free[i] ELSE free[Len(free)])]

SeriesInputs ==
    {<<>>} \cup
    UNION {{Series(free, flat) : flat \in 0..(KeepDays - Len(free))} :
              free \in SeqsUpTo(WordValues, MaxFree) \ {<<>>}}

AggIdle ==
    /\ scope = <<>>
    /\ now = 0
    /\ skew = FALSE
    /\ odd = 0
    /\ ranToday = FALSE
    /\ file = Missing
    /\ pc = "off"
    /\ token = FALSE
    /\ repos = <<>>
    /\ total_words = 0
    /\ history = <<>>
    /\ today = <<>>
    /\ status = NoProcess
    /\ contrib = <<>>
    /\ outcomes = <<>>
    /\ reported = {}
    /\ before = <<>>

ChartInit ==
    /\ daily_counts \in SeriesInputs
    /\ cpc = "start"
    /\ changes = <<>>
    /\ scale = <<>>
    /\ bars_svg = <<>>
    /\ svg = <<>>
    /\ AggIdle
    /\ CountIdle

\* lines 13-17: no data
RenderEmpty ==
    /\ cpc = "start"
    /\ daily_counts = <<>>
    /\ svg' = generate_empty_svg
    /\ cpc' = "done"
    /\ UNCHANGED <<daily_counts, changes, scale, bars_svg, aggVars, countVars>>

\* lines 18-19, 47-55
ComputeChanges ==
    /\ cpc = "start"
    /\ daily_counts # <<>>
    /\ changes' = ChangesOf(daily_counts)
    /\ cpc' = "scale"
    /\ UNCHANGED <<daily_counts, scale, bars_svg, svg, aggVars, countVars>>

\* lines 57-68
ComputeScale ==
    /\ cpc = "scale"
    /\ scale' = [max_change |-> MaxChange(changes),
                 latest_total |-> daily_counts[Len(daily_counts)].words,
                 today_change |-> changes[Len(changes)].change,
                 bar_width |-> BarWidth(Len(changes))]
    /\ cpc' = "bars"
    /\ UNCHANGED <<daily_counts, changes, bars_svg, svg, aggVars, countVars>>

\* lines 72-90: one iteration of the loop over changes
DrawBar ==
    /\ cpc = "bars"
    /\ Len(bars_svg) < Len(changes)
    /\ bars_svg' = Append(bars_svg,
                          Bar(Len(bars_svg), changes[Len(bars_svg) + 1],
                              scale.bar_width, scale.max_change))
    /\ UNCHANGED <<daily_counts, cpc, changes, scale, svg, aggVars, countVars>>

\* lines 92-134
Assemble ==
    /\ cpc = "bars"
    /\ Len(bars_svg) = Len(changes)
    /\ svg' = ChartSvg(daily_counts, scale, bars_svg)
    /\ cpc' = "done"
    /\ UNCHANGED <<daily_counts, changes, scale, bars_svg, aggVars, countVars>>

ChartNext ==
    \/ RenderEmpty
    \/ ComputeChanges
    \/ ComputeScale
    \/ DrawBar
    \/ Assemble

SpecChart == ChartInit /\ [][ChartNext]_vars

----------------------------------------------------------------------------
(* SpecCount: the counter applied to a text, one statement at a time.      *)

\* An input is prefix, block, suffix: the block is \begin{env} body
\* \end{env} (both markers starred if starred), and prefix, body and suffix
\* are made of at most MaxAffix, MaxBody and MaxAffix of the pieces below.
MaxAffix == 1
MaxBody == 2

Pieces == {<<"w">>, <<"sp">>, <<"nl">>, <<"op">>, <<"pct">>, <<"dollar">>,
           <<"rb">>, <<"bs", "textbf", "lb">>}

RECURSIVE Texts(_)
Texts(n) ==
    IF n = 0 THEN {<<>>}
    ELSE LET shorter == Texts(n - 1)
         IN  shorter \cup {t \o q : t \in shorter, q \in Pieces}

Marker(word, env, starred) ==
    <<"bs", word, "lb", env>> \o (IF starred THEN <<"star">> ELSE <<>>)
        \o <<"rb">>

Block(p) ==
    Marker("begin", p.env, p.starred) \o p.body \o Marker("end", p.env, p.starred)

TextOf(p) == p.pre \o Block(p) \o p.post

\* the same text with the whole block replaced by a space
BlockBlanked(p) == p.pre \o <<"sp">> \o p.post

CountInputs ==
    [pre : Texts(MaxAffix), env : {"equation", "align"}, starred : BOOLEAN,
     body : Texts(MaxBody), post : Texts(MaxAffix)]

CountInit ==
    /\ parts \in CountInputs
    /\ content = TextOf(parts)
    /\ stage = 1
    /\ nwords = -1
    /\ AggIdle
    /\ ChartIdle

\* line 47
Stage1Comments ==
    /\ stage = 1
    /\ content' = StripComments(content, 1)
    /\ stage' = 2
    /\ UNCHANGED <<parts, nwords, aggVars, chartVars>>

\* line 51
Stage2Emphasis ==
    /\ stage = 2
    /\ content' = UnwrapEmphasis(content, 1)
    /\ stage' = 3
    /\ UNCHANGED <<parts, nwords, aggVars, chartVars>>

\* line 54
Stage3Commands ==
    /\ stage = 3
    /\ content' = StripCommands(content, 1)
    /\ stage' = 4
    /\ UNCHANGED <<parts, nwords, aggVars, chartVars>>

\* line 57
Stage4InlineMath ==
    /\ stage = 4
    /\ content' = StripInlineMath(content, 1)
    /\ stage' = 5
    /\ UNCHANGED <<parts, nwords, aggVars, chartVars>>

\* line 58
Stage5DisplayMath ==
    /\ stage = 5
    /\ content' = StripDisplayMath(content, 1)
    /\ stage' = 6
    /\ UNCHANGED <<parts, nwords, aggVars, chartVars>>

\* line 59
Stage6Environments ==
    /\ stage = 6
    /\ content' = StripMathEnvironments(content, 1)
    /\ stage' = 7
    /\ UNCHANGED <<parts, nwords, aggVars, chartVars>>

\* line 62
Stage7Braces ==
    /\ stage = 7
    /\ content' = StripBraces(content)
    /\ stage' = 8
    /\ UNCHANGED <<parts, nwords, aggVars, chartVars>>

\* lines 65-67
Stage8Count ==
    /\ stage = 8
    /\ nwords' = SplitCount(content)
    /\ stage' = 9
    /\ UNCHANGED <<parts, content, aggVars, chartVars>>

CountNext ==
    \/ Stage1Comments
    \/ Stage2Emphasis
    \/ Stage3Commands
    \/ Stage4InlineMath
    \/ Stage5DisplayMath
    \/ Stage6Environments
    \/ Stage7Braces
    \/ Stage8Count

SpecCount == CountInit /\ [][CountNext]_vars

----------------------------------------------------------------------------
(* Properties of the aggregation runs (Spec).                              *)

\* a run has just returned 0: file is what it saved, and before, today and
\* total_words are what it loaded, read from the clock and counted
Completed == pc = "idle" /\ status = EndStatus

DateSet(counts) == {counts[i].date : i \in 1..Len(counts)}

\* the entries the run had in hand before the slice: those it loaded, with
\* today's replaced or added
Upserted ==
    {r \in Range(before) : r.date # today} \cup {Record(today, total_words)}

Min(a, b) == IF a <= b THEN a ELSE b

\* C1: starting from a missing file, whenever a document is on disk it
\* holds at most 30 entries; after every completed run the file holds the
\* entries the run had in hand except, when these are more than 30, the
\* ones with the oldest dates; and after a completed run on each of the
\* consecutive days 1..n (no day skipped, the clock right) the file holds
\* exactly the last min(n, 30) of these dates in ascending order, so the
\* dates of days 2..31 after 31 runs.
C1_Retention ==
    /\ file.state = "doc" => Len(file.items) <= KeepDays
    /\ Completed =>
        /\ Range(file.items) \subseteq Upserted
        /\ Len(file.items) = Min(Cardinality(Upserted), KeepDays)
        /\ Cardinality(Range(file.items)) = Len(file.items)
        /\ \A d \in Upserted \ Range(file.items) :
               \A k \in Range(file.items) : DateLess(d.date, k.date)
    /\ (Completed /\ odd = 0) =>
        Dates(file.items) =
            [i \in 1..Min(now, KeepDays) |->
                StrfDate(now - Min(now, KeepDays) + i)]

\* C1: the run of day 31 has completed after a run on each of the 30 days
\* before, and the entry of day 1 is gone from the file
C1_Witness ==
    /\ Completed
    /\ odd = 0
    /\ now = KeepDays + 1
    /\ Len(before) = KeepDays
    /\ Len(file.items) = KeepDays
    /\ before[1].date = StrfDate(1)
    /\ StrfDate(1) \notin DateSet(file.items)
    /\ file.items[KeepDays].date = StrfDate(KeepDays + 1)

StrictlyAscending(counts) ==
    \A i \in 1..(Len(counts) - 1) :
        DateLess(counts[i].date, counts[i + 1].date)

\* C2: starting from a missing file, after any sequence of runs with any
\* sequence of today dates the series on disk, and the series a run is
\* about to save, is sorted strictly ascending by date, so no date occurs
\* in it twice.
C2_StrictlyAscending ==
    /\ file.state = "doc" => StrictlyAscending(file.items)
    /\ pc \in {"save", "dump"} => StrictlyAscending(history)

\* C2: a run has completed whose today was earlier than every date it had
\* loaded, and its entry is now the first one on disk
C2_Witness ==
    /\ Completed
    /\ before # <<>>
    /\ \A i \in 1..Len(before) : DateLess(today, before[i].date)
    /\ Len(file.items) = Len(before) + 1
    /\ file.items[1].date = today

\* C3: when a run finds an entry of today's date in the series it loaded,
\* the series it saves has the same length and the same dates in the same
\* places, today's entry holds the run's total and every other entry holds
\* the word count it had.
C3_OverwriteFrame ==
    (Completed /\ today \in DateSet(before)) =>
        /\ Len(file.items) = Len(before)
        /\ \A i \in 1..Len(before) :
            /\ file.items[i].date = before[i].date
            /\ file.items[i].words =
                   IF before[i].date = today THEN total_words
                   ELSE before[i].words

\* C3: a run has completed that found today's entry, behind an entry of
\* another date, with a word count other than its own total
C3_Witness ==
    /\ Completed
    /\ Len(before) >= 2
    /\ \E i \in 2..Len(before) :
        /\ before[i].date = today
        /\ before[i].words # total_words
        /\ file.items[i].words = total_words

\* what happened to the i-th repository counts as a failure of it
Failed(i) == outcomes[i].out # "ok" \/ outcomes[i].bad # {}

\* every failure of the i-th repository was printed as a warning
Reported(i) ==
    IF outcomes[i].out = "ok"
    THEN \A f \in outcomes[i].bad :
             <<repos[i], "Could not read", f>> \in reported
    ELSE <<repos[i], outcomes[i].out>> \in reported

Ended == pc = "idle" /\ status.how \in {"returned", "raised"}

\* C5 as stated: a run that found no credential ends with a non-zero
\* status, and every other run returns 0, whatever fails while the
\* repositories are listed, cloned or read (runs whose user lookup or
\* history load failed are left aside).
C5_ZeroUnlessNoCredential ==
    (Ended /\ status.at \notin {"user", "load"}) =>
        IF token THEN status.how = "returned" /\ status.code = 0
        ELSE status.code # 0

\* C5 as amended: a run that found no credential returns 1; a run that
\* found one returns 0 if it returns at all, and otherwise ends by an
\* exception (a non-zero exit status) raised by the user lookup, by the
\* listing or by the load of the history file, never by the cloning or
\* reading of a repository.
C5_ExitStatus ==
    /\ (Ended /\ ~token) => status.how = "returned" /\ status.code = 1
    /\ (Ended /\ token /\ status.how = "returned") =>
           status.code = 0 /\ status.at = "end"
    /\ (Ended /\ token /\ status.how = "raised") =>
           status.code # 0 /\ status.at \in {"user", "list", "load"}
    /\ pc \in {"repos", "load", "update", "save", "dump"} =>
           token /\ status = Running

\* C5: a run has returned 0 although repositories failed: its total is
\* below what the files hold
C5_Witness ==
    /\ Completed
    /\ token
    /\ total_words <
           NumRepos * FilesPerRepo * count_words_in_tex_content(FileText(1, 1))

\* C6 as stated: at every point, also during a save and after a process
\* was stopped, the file holds a whole document (or does not exist yet):
\* during a save the series as it was loaded or the new series, and never
\* an empty or partly written document.
C6_AtomicSave ==
    /\ file.state # "empty"
    /\ pc = "dump" =>
           file = Document(before) \/ file = Document(history)
               \/ (file = Missing /\ before = <<>>)

\* C6 as amended: the save truncates the file and then writes the whole
\* new series: the file is untouched until the open, empty from the open
\* to the close (and stays so if the process is stopped there), and after
\* every run that returned 0 it holds exactly the whole series of that
\* run; the load of a later run raises only on such an empty file.
C6_TruncateThenWrite ==
    /\ pc \in {"update", "save"} => file.state # "empty" /\ file.items = before
    /\ pc = "dump" => file = Truncated
    /\ Completed => file = Document(history)
    /\ status = Raised("load") => file = Truncated

\* C6: a save is between its open and its close, and the file that held
\* entries is empty
C6_Witness ==
    /\ pc = "dump"
    /\ before # <<>>
    /\ file = Truncated

----------------------------------------------------------------------------
(* Properties of the renderer (SpecChart).                                 *)

\* the number a signed text shows
Shown(t) == IF t[1] = "-" THEN -t[2] ELSE t[2]

\* the number the groups of three digits show
RECURSIVE Ungrouped(_)
Ungrouped(g) ==
    IF Len(g) = 1 THEN g[1]
    ELSE 1000 * Ungrouped(SubSeq(g, 1, Len(g) - 1)) + g[Len(g)]

\* the day-over-day change of the i-th entry of the series rendered
Delta(i) ==
    IF i = 1 THEN 0 ELSE daily_counts[i].words - daily_counts[i - 1].words

\* C7: for every non-empty series the document has one bar per entry in
\* the order of the series; the title of the first shows the change +0 and
\* the title of every later one the words of its entry minus the words of
\* the entry before it, each with its date and total; the header shows the
\* words of the last entry as the total and, by the sign of the last
\* change, the positive message with that number, the negative message
\* with it, or the neutral message, in green, red or grey.
C7_DeltasAndHeader ==
    (cpc = "done" /\ daily_counts # <<>>) =>
        LET n == Len(daily_counts) IN
        /\ svg.kind = "chart"
        /\ Len(svg.bars) = n
        /\ \A i \in 1..n :
            /\ svg.bars[i].title.date = daily_counts[i].date
            /\ svg.bars[i].title.total = daily_counts[i].words
            /\ Shown(svg.bars[i].title.change) = Delta(i)
            /\ svg.bars[i].title.change[1] = IF Delta(i) < 0 THEN "-" ELSE "+"
        /\ svg.total[Len(svg.total)] = " words"
        /\ Ungrouped(SubSeq(svg.total, 1, Len(svg.total) - 1))
               = daily_counts[n].words
        /\ svg.change =
               IF Delta(n) > 0
               THEN [text |-> <<"+", Delta(n), " words today!">>, color |-> Green]
               ELSE IF Delta(n) < 0
               THEN [text |-> <<"-", -Delta(n), " words today">>, color |-> Red]
               ELSE [text |-> <<"No change today">>, color |-> Grey]

\* C7: the series of 100 and then 150 words has been rendered: changes +0
\* and +50, total 150, the positive message with 50
C7_Witness ==
    /\ cpc = "done"
    /\ Len(daily_counts) = 2
    /\ daily_counts[1].words = 100
    /\ daily_counts[2].words = 150
    /\ svg.bars[1].title.change = <<"+", 0>>
    /\ svg.bars[2].title.change = <<"+", 50>>
    /\ svg.total = <<150, " words">>
    /\ svg.change.text = <<"+", 50, " words today!">>

\* C9 as stated: every bar drawn for a change that is not negative lies
\* above the zero line, its top edge y plus its rendered height not
\* exceeding the baseline 115, and every bar drawn for a negative change
\* has its top edge on the baseline.
C9_UpwardFromBaseline ==
    \A i \in 1..Len(bars_svg) :
        IF changes[i].change >= 0
        THEN FracLeq(FracAdd(bars_svg[i].y, bars_svg[i].height), ZeroY)
        ELSE bars_svg[i].y = ZeroY

\* C10 as stated: for every series of 1 to 30 entries every bar drawn lies
\* inside the plotting area: its left edge is at least 40 and its right
\* edge, x plus its width, at most 460.
C10_BarsInsidePlot ==
    \A i \in 1..Len(bars_svg) :
        /\ FracLeq(Whole(padding), bars_svg[i].x)
        /\ FracLeq(FracAdd(bars_svg[i].x, bars_svg[i].width),
                   Whole(width - padding))

----------------------------------------------------------------------------
(* Properties of the counter (SpecCount).                                  *)

Prose == {"w", "sp", "nl"}

\* the block stands between plain words and holds plain formula text
PlainInput ==
    /\ Range(parts.pre) \subseteq Prose
    /\ Range(parts.post) \subseteq Prose
    /\ Range(parts.body) \subseteq Prose \cup {"op"}

\* C8 as stated: the content of a block math environment, from its begin
\* marker to the end marker of the same name, contributes no tokens: the
\* count of a text with such a block is the count of the same text with
\* the whole block replaced by a space (here for blocks of plain formula
\* text between plain words).
C8_BlockCountsNothing ==
    (stage = 9 /\ PlainInput) =>
        nwords = count_words_in_tex_content(BlockBlanked(parts))

====
